---- MODULE Spec2Model ----
(***************************************************************************)
(* Model of cyclic-toposort (TypeScript): acyclic_toposort, the recursive  *)
(* cycle-breaking search _cyclic_toposort_recursive with its candidate     *)
(* generator generate_reduced_ins_outs, and the orchestrator               *)
(* cyclic_toposort.                                                        *)
(*                                                                         *)
(* A JavaScript Set is a sequence without repetition in insertion order, a *)
(* Map a sequence of <<key, value>> entries in insertion order.  The       *)
(* Map<number, Set<number>> objects that the search copies and mutates in  *)
(* place live in a heap (a sequence of objects, an address is an index):   *)
(* a map object is a sequence of <<key, address of its Set>>, a set object *)
(* a sequence of nodes.                                                    *)
(***************************************************************************)
EXTENDS Integers, Sequences, FiniteSets, TLC

\* ------------------------------------------------------------------ bounds
NumNodes == 3
MaxEdges == 4

Nodes == 1..NumNodes
NULL == 0
AllEdges == Nodes \X Nodes

\* ------------------------------------------------------- sequence helpers
Range(s) == {s[i] : i \in 1..Len(s)}

Without(s, X) == SelectSeq(s, LAMBDA x : x \notin X)

RECURSIVE Flatten(_)
Flatten(ss) == IF ss = << >> THEN << >> ELSE Head(ss) \o Flatten(Tail(ss))

\* index of the entry of map value/object m with key k, 0 when absent
KeyIndex(m, k) ==
    IF \E i \in 1..Len(m) : m[i][1] = k
    THEN CHOOSE i \in 1..Len(m) : m[i][1] = k
    ELSE 0

\* the element of a one-element set; The({F(x) : x \in {e}}) is F(e) with e
\* computed once
The(S) == CHOOSE x \in S : TRUE

\* Set.prototype.add on a set held as a sequence
SetAdd(s, x) == IF x \in Range(s) THEN s ELSE Append(s, x)

\* ------------------------------------------------ acyclic_toposort (values)
\* AT_ReadEdges without the `if (start === end) continue`
RECURSIVE AT_ReadEdges_KeepLoops(_, _, _)
AT_ReadEdges_KeepLoops(es, ins, tracker) ==
    IF es = << >> THEN [node_ins |-> ins, all_nodes_tracker |-> tracker]
    ELSE LET start == Head(es)[1]
             end == Head(es)[2]
             tr == SetAdd(SetAdd(tracker, start), end)
             i == KeyIndex(ins, end)
             ins2 == IF i = 0 THEN Append(ins, <<end, <<start>>>>)
                     ELSE [ins EXCEPT ![i] = <<end, SetAdd(ins[i][2], start)>>]
         IN AT_ReadEdges_KeepLoops(Tail(es), ins2, tr)

\* One pass of the edge loop: the incoming map and the node tracker after
\* the edges es have been read into them.
RECURSIVE AT_ReadEdges(_, _, _)
AT_ReadEdges(es, ins, tracker) ==
    IF es = << >> THEN [node_ins |-> ins, all_nodes_tracker |-> tracker]
    ELSE LET start == Head(es)[1]
             end == Head(es)[2]
             tr == SetAdd(SetAdd(tracker, start), end)
             i == KeyIndex(ins, end)
             ins2 == IF start = end THEN ins
                     ELSE IF i = 0 THEN Append(ins, <<end, <<start>>>>)
                     ELSE [ins EXCEPT ![i] = <<end, SetAdd(ins[i][2], start)>>]
         IN AT_ReadEdges(Tail(es), ins2, tr)

\* every tracked node gets an entry
RECURSIVE AT_FillMissing(_, _)
AT_FillMissing(tracker, ins) ==
    IF tracker = << >> THEN ins
    ELSE AT_FillMissing(Tail(tracker),
                        IF KeyIndex(ins, Head(tracker)) = 0
                        THEN Append(ins, <<Head(tracker), << >> >>)
                        ELSE ins)

AT_Build(es) ==
    LET r == AT_ReadEdges(es, << >>, << >>)
    IN [node_ins |-> AT_FillMissing(r.all_nodes_tracker, r.node_ins),
        all_nodes_tracker |-> r.all_nodes_tracker]

Placed(topology) == UNION {Range(topology[i]) : i \in 1..Len(topology)}

\* AT_Dependencyless that stops at the first node it finds
AT_Dependencyless_FirstOnly(ins, tracker, topology) ==
    LET found == SelectSeq(tracker,
                     LAMBDA node :
                         /\ LET i == KeyIndex(ins, node)
                            IN i = 0 \/ Len(ins[i][2]) = 0
                         /\ node \notin Placed(topology))
    IN IF found = << >> THEN << >> ELSE <<Head(found)>>

\* the for loop over all_nodes_tracker that fills dependencyless
AT_Dependencyless(ins, tracker, topology) ==
    SelectSeq(tracker,
              LAMBDA node :
                  /\ LET i == KeyIndex(ins, node)
                     IN i = 0 \/ Len(ins[i][2]) = 0
                  /\ node \notin Placed(topology))

AT_RemainingNodes(tracker, topology) ==
    \E i \in 1..Len(tracker) : tracker[i] \notin Placed(topology)

\* AT_RemoveDeps with the test `!dependencyless.has(node)` inverted
AT_RemoveDeps_Inverted(ins, dependencyless) ==
    [i \in 1..Len(ins) |->
        IF ins[i][1] \notin Range(dependencyless) THEN ins[i]
        ELSE <<ins[i][1], Without(ins[i][2], Range(dependencyless))>>]

AT_RemoveDeps(ins, dependencyless) ==
    [i \in 1..Len(ins) |->
        IF ins[i][1] \in Range(dependencyless) THEN ins[i]
        ELSE <<ins[i][1], Without(ins[i][2], Range(dependencyless))>>]

RECURSIVE AT_Loop(_, _, _)
AT_Loop(ins, tracker, topology) ==
    LET dependencyless == AT_Dependencyless(ins, tracker, topology)
    IN IF Len(dependencyless) = 0
       THEN [ok |-> ~AT_RemainingNodes(tracker, topology), topology |-> topology]
       ELSE AT_Loop(AT_RemoveDeps(ins, dependencyless), tracker,
                    Append(topology, dependencyless))

\* ok = FALSE stands for the thrown "Cyclic graph detected during acyclic sort."
acyclic_toposort(es) ==
    LET b == AT_Build(es)
    IN AT_Loop(b.node_ins, b.all_nodes_tracker, << >>)

\* ---------------------------------------------------------- utils.ts (heap)
\* deepCopyMapSet as copy.set(key, valueSet): a new map object that shares
\* the set objects of the original
deepCopyMapSet_Shallow(h, a) == [h |-> Append(h, h[a]), a |-> Len(h) + 1]

\* deepCopyMapSet: a new map object whose values are new set objects.
deepCopyMapSet(h, a) ==
    LET m == h[a]
        n == Len(m)
        base == Len(h)
    IN [h |-> h \o [i \in 1..n |-> h[m[i][2]]]
                \o << [i \in 1..n |-> <<m[i][1], base + i>>] >>,
        a |-> base + n + 1]

\* findNodesWithEmptySet: the keys whose set is empty, in map order.
findNodesWithEmptySet(h, a) ==
    LET m == h[a]
        empties == SelectSeq(m, LAMBDA ent : Len(h[ent[2]]) = 0)
    IN [i \in 1..Len(empties) |-> empties[i][1]]

ValueAddrs(h, a) == {h[a][i][2] : i \in 1..Len(h[a])}

\* removeNodes that deletes the keys only, not the nodes in the value sets
removeNodes_KeysOnly(h, node_ins, node_outs, nodesToRemove) ==
    LET gone == Range(nodesToRemove)
        h1 == [h EXCEPT ![node_ins] = SelectSeq(@, LAMBDA ent : ent[1] \notin gone)]
    IN [h1 EXCEPT ![node_outs] = SelectSeq(@, LAMBDA ent : ent[1] \notin gone)]

\* removeNodes: mutates both maps in place; the heap after the call.
removeNodes(h, node_ins, node_outs, nodesToRemove) ==
    LET gone == Range(nodesToRemove)
        h1 == [h EXCEPT ![node_ins] = SelectSeq(@, LAMBDA ent : ent[1] \notin gone)]
        h2 == [h1 EXCEPT ![node_outs] = SelectSeq(@, LAMBDA ent : ent[1] \notin gone)]
        inSets == ValueAddrs(h2, node_ins)
        h3 == [x \in 1..Len(h2) |-> IF x \in inSets THEN Without(h2[x], gone) ELSE h2[x]]
        outSets == ValueAddrs(h3, node_outs)
    IN [x \in 1..Len(h3) |-> IF x \in outSets THEN Without(h3[x], gone) ELSE h3[x]]

\* recreateEdgesFromIns: the edges [start, end] in map order, then set order.
recreateEdgesFromIns(h, a) ==
    LET m == h[a]
    IN Flatten([i \in 1..Len(m) |->
                   [j \in 1..Len(h[m[i][2]]) |-> <<h[m[i][2]][j], m[i][1]>>]])

\* Array.prototype.toString of an edge of one-digit nodes, as character
\* codes: digit d is 48 + d, the comma 44.
EdgeToString(e) == <<48 + e[1], 44, 48 + e[2]>>

\* string comparison a < b by code units
RECURSIVE StrLess(_, _)
StrLess(a, b) ==
    IF b = << >> THEN FALSE
    ELSE IF a = << >> THEN TRUE
    ELSE IF Head(a) # Head(b) THEN Head(a) < Head(b)
    ELSE StrLess(Tail(a), Tail(b))

RECURSIVE SortInsert(_, _)
SortInsert(sorted, x) ==
    IF sorted = << >> THEN <<x>>
    ELSE IF StrLess(x, Head(sorted)) THEN <<x>> \o sorted
    ELSE <<Head(sorted)>> \o SortInsert(Tail(sorted), x)

\* Array.prototype.sort() of strings
RECURSIVE SortStrings(_)
SortStrings(ss) ==
    IF ss = << >> THEN << >>
    ELSE SortInsert(SortStrings(Tail(ss)), Head(ss))

\* areSetsEqual without the two sort() calls
areSetsEqual_Unsorted(setA, setB) ==
    IF Len(setA) # Len(setB) THEN FALSE
    ELSE LET arrayA == [i \in 1..Len(setA) |-> EdgeToString(setA[i])]
             arrayB == [i \in 1..Len(setB) |-> EdgeToString(setB[i])]
         IN \A index \in 1..Len(arrayA) : arrayA[index] = arrayB[index]

\* areSetsEqual on two Set<Edge>
areSetsEqual(setA, setB) ==
    IF Len(setA) # Len(setB) THEN FALSE
    ELSE LET arrayA == SortStrings([i \in 1..Len(setA) |-> EdgeToString(setA[i])])
             arrayB == SortStrings([i \in 1..Len(setB) |-> EdgeToString(setB[i])])
         IN \A index \in 1..Len(arrayA) : arrayA[index] = arrayB[index]

\* range(n): 0 .. n-1
range(n) == [i \in 1..n |-> i - 1]

\* the index vector after `indices` in combinations, << >> when exhausted
CombNext(indices, n, r) ==
    LET movable == {i \in 1..r : indices[i] # (i - 1) + n - r}
    IN IF movable = {} THEN << >>
       ELSE LET i == CHOOSE x \in movable : \A y \in movable : y <= x
            IN [j \in 1..r |->
                   IF j < i THEN indices[j] ELSE indices[i] + 1 + (j - i)]

RECURSIVE CombFrom(_, _, _)
CombFrom(pool, indices, r) ==
    LET this == [k \in 1..r |-> pool[indices[k] + 1]]
        next == CombNext(indices, Len(pool), r)
    IN IF r = 0 \/ next = << >> THEN <<this>>
       ELSE <<this>> \o CombFrom(pool, next, r)

\* combinations(iterable, r): everything the generator yields, in order
combinations(pool, r) ==
    IF r > Len(pool) THEN << >> ELSE CombFrom(pool, range(r), r)

\* ------------------------------------------- generate_reduced_ins_outs
\* The subsets yielded for one node: sizes 1..numIncoming, each size in
\* combinations order, as edges [start, node].
NodeSubsets(node, incomingArray) ==
    Flatten([n \in 1..Len(incomingArray) |->
                LET cs == combinations(incomingArray, n)
                IN [c \in 1..Len(cs) |->
                       [k \in 1..n |-> <<cs[c][k], node>>]]])

\* PrimarySubsets with the test incomingSet.size < 1 in place of <= 1
PrimarySubsets_FromOne(h, node_ins) ==
    LET m == h[node_ins]
    IN Flatten([i \in 1..Len(m) |->
                   IF Len(h[m[i][2]]) < 1 THEN << >>
                   ELSE NodeSubsets(m[i][1], h[m[i][2]])])

\* PrimarySubsets with break in place of continue: the loop over the nodes
\* stops at the first node with at most one predecessor
PrimarySubsets_BreakAtSingle(h, node_ins) ==
    LET m == h[node_ins]
        single == {i \in 1..Len(m) : Len(h[m[i][2]]) <= 1}
        stop == IF single = {} THEN Len(m) + 1
                ELSE CHOOSE i \in single : \A j \in single : i <= j
    IN Flatten([i \in 1..(stop - 1) |-> NodeSubsets(m[i][1], h[m[i][2]])])

\* primary strategy: nodes of the incoming map with more than one predecessor
PrimarySubsets(h, node_ins) ==
    LET m == h[node_ins]
    IN Flatten([i \in 1..Len(m) |->
                   IF Len(h[m[i][2]]) <= 1 THEN << >>
                   ELSE NodeSubsets(m[i][1], h[m[i][2]])])

\* FallbackSubsets with the size loop starting at n = 2
FallbackSubsets_FromTwo(edgeArray) ==
    Flatten([n \in 1..Len(edgeArray) |->
                IF n = 1 THEN << >>
                ELSE LET cs == combinations(range(Len(edgeArray)), n)
                     IN [c \in 1..Len(cs) |->
                            [k \in 1..n |-> edgeArray[cs[c][k] + 1]]]])

\* fallback: every non-empty subset of the edge array, by index combinations
FallbackSubsets(edgeArray) ==
    Flatten([n \in 1..Len(edgeArray) |->
                LET cs == combinations(range(Len(edgeArray)), n)
                IN [c \in 1..Len(cs) |->
                       [k \in 1..n |-> edgeArray[cs[c][k] + 1]]]])

\* forced_cyclic_edges of every result the generator yields, in order
generate_reduced_ins_outs(es, h, node_ins, node_outs) ==
    LET primary == PrimarySubsets(h, node_ins)
        yielded == Len(primary) > 0
    IN IF yielded THEN primary ELSE FallbackSubsets(es)

\* modified.get(key)?.delete(x) on a map object
MapSetDelete(h, a, key, x) ==
    LET i == KeyIndex(h[a], key)
    IN IF i = 0 THEN h
       ELSE [h EXCEPT ![h[a][i][2]] = Without(@, {x})]

\* DeleteEdges without modified_outs.get(start)?.delete(end)
RECURSIVE DeleteEdges_InsOnly(_, _, _, _)
DeleteEdges_InsOnly(h, ins, outs, subset_edges) ==
    IF subset_edges = << >> THEN h
    ELSE LET start == Head(subset_edges)[1]
             end == Head(subset_edges)[2]
         IN DeleteEdges_InsOnly(MapSetDelete(h, ins, end, start),
                                ins, outs, Tail(subset_edges))

\* the loop over subset_edges that deletes each edge from both copies
RECURSIVE DeleteEdges(_, _, _, _)
DeleteEdges(h, ins, outs, subset_edges) ==
    IF subset_edges = << >> THEN h
    ELSE LET start == Head(subset_edges)[1]
             end == Head(subset_edges)[2]
         IN DeleteEdges(MapSetDelete(MapSetDelete(h, ins, end, start), outs, start, end),
                        ins, outs, Tail(subset_edges))

\* one yield of the generator: both maps copied, the subset's edges deleted
\* from the copies
YieldReduced(h, node_ins, node_outs, subset_edges) ==
    LET ci == deepCopyMapSet(h, node_ins)
        co == deepCopyMapSet(ci.h, node_outs)
    IN [h |-> DeleteEdges(co.h, ci.a, co.a, subset_edges),
        reduced_ins |-> ci.a,
        reduced_outs |-> co.a,
        forced_cyclic_edges |-> subset_edges]

\* -------------------------------------------- _cyclic_toposort_recursive
Infinity == -1

Below(n, bound) == bound = Infinity \/ n < bound

\* PeelRound without the branch that removes the followerless nodes
PeelRound_DependencylessOnly(h, ins, outs) ==
    LET dependencyless_nodes == findNodesWithEmptySet(h, ins)
    IN IF Len(dependencyless_nodes) > 0
       THEN LET h1 == removeNodes(h, ins, outs, dependencyless_nodes)
            IN IF Len(h1[ins]) = 0 /\ Len(h1[outs]) = 0
               THEN [h |-> h1, ends |-> "return"]
               ELSE [h |-> h1, ends |-> "continue"]
       ELSE [h |-> h, ends |-> "break"]

\* one iteration of the peel loop (the body of the while (true)): the heap
\* after it and how it ends: "return" (the return inside the first branch),
\* "continue" (nodes were removed, the loop goes on) or "break"
PeelRound(h, ins, outs) ==
    LET dependencyless_nodes == findNodesWithEmptySet(h, ins)
    IN IF Len(dependencyless_nodes) > 0
       THEN LET h1 == removeNodes(h, ins, outs, dependencyless_nodes)
            IN IF Len(h1[ins]) = 0 /\ Len(h1[outs]) = 0
               THEN [h |-> h1, ends |-> "return"]
               ELSE [h |-> h1, ends |-> "continue"]
       ELSE LET followerless_nodes == findNodesWithEmptySet(h, outs)
            IN IF Len(followerless_nodes) > 0
               THEN [h |-> removeNodes(h, ins, outs, followerless_nodes),
                     ends |-> "continue"]
               ELSE [h |-> h, ends |-> "break"]

\* the peel loop (the while (true) up to the search): the heap when it is
\* left, and whether it was left by the return inside the first branch
RECURSIVE Peel(_, _, _)
Peel(h, ins, outs) ==
    The({IF round.ends = "continue" THEN Peel(round.h, ins, outs)
         ELSE [h |-> round.h, returned |-> round.ends = "return"] :
            round \in {PeelRound(h, ins, outs)}})

\* Combine that leaves forced_cyclic_edges out of combined_cyclic_set
RECURSIVE Combine_DropForced(_, _, _, _)
Combine_DropForced(forced_cyclic_edges, recursive_results, min_cyclic_edges_count, new_cyclic_edges_list) ==
    IF recursive_results = << >>
    THEN [min |-> min_cyclic_edges_count, list |-> new_cyclic_edges_list]
    ELSE LET combined_cyclic_set == Head(recursive_results)
             total_cyclic_count == Len(combined_cyclic_set)
             is_present == \E i \in 1..Len(new_cyclic_edges_list) :
                              areSetsEqual(new_cyclic_edges_list[i], combined_cyclic_set)
         IN IF Below(total_cyclic_count, min_cyclic_edges_count)
            THEN Combine_DropForced(forced_cyclic_edges, Tail(recursive_results),
                                    total_cyclic_count, <<combined_cyclic_set>>)
            ELSE IF total_cyclic_count = min_cyclic_edges_count /\ ~is_present
            THEN Combine_DropForced(forced_cyclic_edges, Tail(recursive_results),
                                    min_cyclic_edges_count,
                                    Append(new_cyclic_edges_list, combined_cyclic_set))
            ELSE Combine_DropForced(forced_cyclic_edges, Tail(recursive_results),
                                    min_cyclic_edges_count, new_cyclic_edges_list)

\* the inner loop over recursive_results
RECURSIVE Combine(_, _, _, _)
Combine(forced_cyclic_edges, recursive_results, min_cyclic_edges_count, new_cyclic_edges_list) ==
    IF recursive_results = << >>
    THEN [min |-> min_cyclic_edges_count, list |-> new_cyclic_edges_list]
    ELSE LET combined_cyclic_set == forced_cyclic_edges \o Head(recursive_results)
             total_cyclic_count == Len(combined_cyclic_set)
             is_present == \E i \in 1..Len(new_cyclic_edges_list) :
                              areSetsEqual(new_cyclic_edges_list[i], combined_cyclic_set)
         IN IF Below(total_cyclic_count, min_cyclic_edges_count)
            THEN Combine(forced_cyclic_edges, Tail(recursive_results),
                         total_cyclic_count, <<combined_cyclic_set>>)
            ELSE IF total_cyclic_count = min_cyclic_edges_count /\ ~is_present
            THEN Combine(forced_cyclic_edges, Tail(recursive_results),
                         min_cyclic_edges_count,
                         Append(new_cyclic_edges_list, combined_cyclic_set))
            ELSE Combine(forced_cyclic_edges, Tail(recursive_results),
                         min_cyclic_edges_count, new_cyclic_edges_list)

\* a map object read out as the value <<key, set>>*
Deref(h, a) == [i \in 1..Len(h[a]) |-> <<h[a][i][1], h[h[a][i][2]]>>]

\* the two maps read the same in heaps h1 and h2
SameMaps(h1, h2, ins, outs) ==
    Deref(h1, ins) = Deref(h2, ins) /\ Deref(h1, outs) = Deref(h2, outs)

RECURSIVE _cyclic_toposort_recursive(_, _, _)

\* Iteration that skips every candidate once a best count is known
Iteration_PruneAll(h, ins, outs, subset_edges, min_cyclic_edges_count, new_cyclic_edges_list) ==
    The({IF min_cyclic_edges_count # Infinity
         THEN [h |-> SubSeq(y.h, 1, Len(h)), min |-> min_cyclic_edges_count,
               list |-> new_cyclic_edges_list,
               intact |-> SameMaps(h, y.h, ins, outs)]
         ELSE The({LET c == Combine(y.forced_cyclic_edges, r.list,
                                    min_cyclic_edges_count, new_cyclic_edges_list)
                   IN [h |-> SubSeq(r.h, 1, Len(h)), min |-> c.min, list |-> c.list,
                       intact |-> /\ SameMaps(h, y.h, ins, outs)
                                  /\ r.intact
                                  /\ SameMaps(y.h, r.h, y.reduced_ins, y.reduced_outs)] :
                      r \in {_cyclic_toposort_recursive(y.h, y.reduced_ins,
                                                        y.reduced_outs)}}) :
            y \in {YieldReduced(h, ins, outs, subset_edges)}})

\* One iteration of the for loop over the generator, for the candidate that
\* removes subset_edges: the yield y, then either the continue of the pruning
\* test or the recursive call, with result r, and the loop over its results.
\* Objects allocated for the candidate are unreachable once the iteration
\* ends and are dropped.  intact records that the yield left the generator's
\* maps as they were and the recursive call left the maps passed to it as
\* they were.
Iteration(h, ins, outs, subset_edges, min_cyclic_edges_count, new_cyclic_edges_list) ==
    The({IF ~Below(Len(y.forced_cyclic_edges), min_cyclic_edges_count)
         THEN [h |-> SubSeq(y.h, 1, Len(h)), min |-> min_cyclic_edges_count,
               list |-> new_cyclic_edges_list,
               intact |-> SameMaps(h, y.h, ins, outs)]
         ELSE The({LET c == Combine(y.forced_cyclic_edges, r.list,
                                    min_cyclic_edges_count, new_cyclic_edges_list)
                   IN [h |-> SubSeq(r.h, 1, Len(h)), min |-> c.min, list |-> c.list,
                       intact |-> /\ SameMaps(h, y.h, ins, outs)
                                  /\ r.intact
                                  /\ SameMaps(y.h, r.h, y.reduced_ins, y.reduced_outs)] :
                      r \in {_cyclic_toposort_recursive(y.h, y.reduced_ins,
                                                        y.reduced_outs)}}) :
            y \in {YieldReduced(h, ins, outs, subset_edges)}})

\* The for loop over the generator, from candidate k on.
RECURSIVE SearchLoop(_, _, _, _, _, _, _)
SearchLoop(h, ins, outs, subsets, k, min_cyclic_edges_count, new_cyclic_edges_list) ==
    IF k > Len(subsets)
    THEN [h |-> h, list |-> new_cyclic_edges_list, intact |-> TRUE]
    ELSE The({[SearchLoop(it.h, ins, outs, subsets, k + 1, it.min, it.list)
                  EXCEPT !.intact = @ /\ it.intact] :
                 it \in {Iteration(h, ins, outs, subsets[k], min_cyclic_edges_count,
                                   new_cyclic_edges_list)}})

\* the list of cyclic edge sets returned, the heap at the return (the call's
\* own copies dropped), and intact of its loop
_cyclic_toposort_recursive(h, node_ins, node_outs) ==
    LET ci == deepCopyMapSet(h, node_ins)
        co == deepCopyMapSet(ci.h, node_outs)
        current_node_ins == ci.a
        current_node_outs == co.a
        cyclic_edges_list == << << >> >>
    IN The({LET current_edges == recreateEdgesFromIns(p.h, current_node_ins)
            IN IF p.returned \/ Len(current_edges) = 0
               THEN [h |-> SubSeq(p.h, 1, Len(h)), list |-> cyclic_edges_list,
                     intact |-> TRUE]
               ELSE The({[h |-> SubSeq(s.h, 1, Len(h)), list |-> s.list,
                          intact |-> s.intact] :
                            s \in {SearchLoop(p.h, current_node_ins, current_node_outs,
                                       generate_reduced_ins_outs(current_edges, p.h,
                                           current_node_ins, current_node_outs),
                                       1, Infinity, << >>)}}) :
               p \in {Peel(co.h, current_node_ins, current_node_outs)}})

\* ------------------------------------------------------- cyclic_toposort
\* if (!map.has(k)) map.set(k, new Set())
MapEnsure(m, k) == IF KeyIndex(m, k) = 0 THEN Append(m, <<k, << >> >>) ELSE m

\* map.get(k)!.add(x)
MapSetAdd(m, k, x) == [m EXCEPT ![KeyIndex(m, k)] = <<k, SetAdd(@[2], x)>>]

\* CT_ReadEdges without the branch that forces the edges into start_node
RECURSIVE CT_ReadEdges_NoForced(_, _, _)
CT_ReadEdges_NoForced(es, sn, acc) ==
    IF es = << >> THEN acc
    ELSE LET edge == Head(es)
             start == edge[1]
             end == edge[2]
             nodes2 == SetAdd(SetAdd(acc.all_nodes, start), end)
             ins1 == MapEnsure(MapEnsure(acc.node_ins, end), start)
             outs1 == MapEnsure(MapEnsure(acc.node_outs, start), end)
         IN CT_ReadEdges_NoForced(Tail(es), sn,
                IF start = end
                THEN [acc EXCEPT !.all_nodes = nodes2]
                ELSE [acc EXCEPT !.all_nodes = nodes2,
                                 !.node_ins = MapSetAdd(ins1, end, start),
                                 !.node_outs = MapSetAdd(outs1, start, end)])

\* CT_ReadEdges with the start_node test ahead of the self-loop test
RECURSIVE CT_ReadEdges_ForcedFirst(_, _, _)
CT_ReadEdges_ForcedFirst(es, sn, acc) ==
    IF es = << >> THEN acc
    ELSE LET edge == Head(es)
             start == edge[1]
             end == edge[2]
             nodes2 == SetAdd(SetAdd(acc.all_nodes, start), end)
             ins1 == MapEnsure(MapEnsure(acc.node_ins, end), start)
             outs1 == MapEnsure(MapEnsure(acc.node_outs, start), end)
         IN CT_ReadEdges_ForcedFirst(Tail(es), sn,
                IF sn # NULL /\ end = sn
                THEN [acc EXCEPT !.all_nodes = nodes2,
                                 !.node_ins = ins1,
                                 !.node_outs = outs1,
                                 !.cyclic_edges_forced = SetAdd(@, edge)]
                ELSE IF start = end
                THEN [acc EXCEPT !.all_nodes = nodes2]
                ELSE [acc EXCEPT !.all_nodes = nodes2,
                                 !.node_ins = MapSetAdd(ins1, end, start),
                                 !.node_outs = MapSetAdd(outs1, start, end)])

\* the for loop over the input edges
RECURSIVE CT_ReadEdges(_, _, _)
CT_ReadEdges(es, sn, acc) ==
    IF es = << >> THEN acc
    ELSE LET edge == Head(es)
             start == edge[1]
             end == edge[2]
             nodes2 == SetAdd(SetAdd(acc.all_nodes, start), end)
             ins1 == MapEnsure(MapEnsure(acc.node_ins, end), start)
             outs1 == MapEnsure(MapEnsure(acc.node_outs, start), end)
         IN CT_ReadEdges(Tail(es), sn,
                IF start = end
                THEN [acc EXCEPT !.all_nodes = nodes2]
                ELSE IF sn # NULL /\ end = sn
                THEN [acc EXCEPT !.all_nodes = nodes2,
                                 !.node_ins = ins1,
                                 !.node_outs = outs1,
                                 !.cyclic_edges_forced = SetAdd(@, edge)]
                ELSE [acc EXCEPT !.all_nodes = nodes2,
                                 !.node_ins = MapSetAdd(ins1, end, start),
                                 !.node_outs = MapSetAdd(outs1, start, end)])

RECURSIVE EnsureAll(_, _)
EnsureAll(nodes, m) ==
    IF nodes = << >> THEN m ELSE EnsureAll(Tail(nodes), MapEnsure(m, Head(nodes)))

\* everything cyclic_toposort builds before it calls the search
CT_Build(es, sn) ==
    LET r == CT_ReadEdges(es, sn, [node_ins |-> << >>, node_outs |-> << >>,
                                   cyclic_edges_forced |-> << >>, all_nodes |-> << >>])
        ins2 == EnsureAll(r.all_nodes, r.node_ins)
        outs2 == EnsureAll(r.all_nodes, r.node_outs)
        absent == sn # NULL /\ sn \notin Range(r.all_nodes)
    IN [node_ins |-> IF absent THEN MapEnsure(ins2, sn) ELSE ins2,
        node_outs |-> IF absent THEN MapEnsure(outs2, sn) ELSE outs2,
        cyclic_edges_forced |-> r.cyclic_edges_forced,
        all_nodes |-> IF absent THEN Append(r.all_nodes, sn) ELSE r.all_nodes]

\* a map value <<key, set>>* as objects of the heap
Store(h, mv) ==
    LET n == Len(mv)
        base == Len(h)
    IN [h |-> h \o [i \in 1..n |-> mv[i][2]]
                \o << [i \in 1..n |-> <<mv[i][1], base + i>>] >>,
        a |-> base + n + 1]

\* the call of the search on the orchestrator's maps: the returned list, the
\* two maps as they are after the call, and intact of the calls below it
CT_Search(ins, outs) ==
    LET si == Store(<< >>, ins)
        so == Store(si.h, outs)
        r == _cyclic_toposort_recursive(so.h, si.a, so.a)
    IN [list |-> r.list, node_ins |-> Deref(r.h, si.a), node_outs |-> Deref(r.h, so.a),
        intact |-> r.intact]

\* CT_Remainder that compares the start of the edges only
CT_Remainder_StartOnly(es, combined_cyclic_edges) ==
    SelectSeq(es, LAMBDA edge :
        ~\E i \in 1..Len(combined_cyclic_edges) :
            edge[1] = combined_cyclic_edges[i][1])

\* the input edges that match no edge of combined_cyclic_edges by content
CT_Remainder(es, combined_cyclic_edges) ==
    SelectSeq(es, LAMBDA edge :
        ~\E i \in 1..Len(combined_cyclic_edges) :
            /\ edge[1] = combined_cyclic_edges[i][1]
            /\ edge[2] = combined_cyclic_edges[i][2])

\* -Infinity, below every score (scores are sums of set sizes)
MinusInfinity == -1

MapSize(m, k) == IF KeyIndex(m, k) = 0 THEN 0 ELSE Len(m[KeyIndex(m, k)][2])

RECURSIVE Score(_, _)
Score(cyclic_edges, ins) ==
    IF cyclic_edges = << >> THEN 0
    ELSE MapSize(ins, Head(cyclic_edges)[2]) + Score(Tail(cyclic_edges), ins)

\* CT_Best with the test score >= best_score
RECURSIVE CT_Best_LastOfTies(_, _, _, _, _)
CT_Best_LastOfTies(results, i, ins, best_result, best_score) ==
    IF i > Len(results) THEN best_result
    ELSE LET score == Score(results[i][2], ins)
         IN IF score >= best_score
            THEN CT_Best_LastOfTies(results, i + 1, ins, results[i], score)
            ELSE CT_Best_LastOfTies(results, i + 1, ins, best_result, best_score)

\* the selection loop: best_result after the results from index i on
RECURSIVE CT_Best(_, _, _, _, _)
CT_Best(results, i, ins, best_result, best_score) ==
    IF i > Len(results) THEN best_result
    ELSE LET score == Score(results[i][2], ins)
         IN IF score > best_score
            THEN CT_Best(results, i + 1, ins, results[i], score)
            ELSE CT_Best(results, i + 1, ins, best_result, best_score)

\* ------------------------------------------------------------ the program
VARIABLES
    edges,                      \* the caller's Set<Edge>, in insertion order
    start_node,                 \* cyclic_toposort's second argument, NULL if none
    pc,                         \* where the call in progress stands
    node_ins, node_outs,        \* cyclic_toposort's maps
    cyclic_edges_forced,
    all_nodes,
    list_of_cyclic_edge_sets,
    tried,                      \* candidates the layering loop has gone through
    possible_results,
    caught,                     \* candidates dropped in the catch block
    best_result,                \* what cyclic_toposort returns
    intact,                     \* no call below the search changed a map passed to it
    at_node_ins,                \* acyclic_toposort's node_ins
    all_nodes_tracker,
    graph_topology,             \* acyclic_toposort's levels; what it returns
    depth,                      \* calls of the search below the orchestrator's
    current_node_ins,           \* the locals of the call of the search that
    current_node_outs,          \*   is followed step by step
    generator,                  \* the candidates the generator yields, in order
    yielded,                    \* how many of them the for loop has taken
    min_cyclic_edges_count,
    new_cyclic_edges_list,
    cyclic_edges_list           \* what the call returns

vars == <<edges, start_node, pc, node_ins, node_outs, cyclic_edges_forced, all_nodes,
          list_of_cyclic_edge_sets, tried, possible_results, caught, best_result,
          intact, at_node_ins, all_nodes_tracker, graph_topology, depth,
          current_node_ins, current_node_outs, generator, yielded,
          min_cyclic_edges_count, new_cyclic_edges_list, cyclic_edges_list>>

ctVars == <<node_ins, node_outs, cyclic_edges_forced, all_nodes,
            list_of_cyclic_edge_sets, tried, possible_results, caught, best_result,
            intact>>

atVars == <<at_node_ins, all_nodes_tracker, graph_topology>>

srVars == <<depth, current_node_ins, current_node_outs, generator, yielded,
            min_cyclic_edges_count, new_cyclic_edges_list, cyclic_edges_list>>

\* The code uses node identifiers only as keys and compares them only for
\* equality, so inputs are taken up to renaming: the nodes are numbered in
\* the order in which the edge set first mentions them.
RECURSIVE MaxNode(_)
MaxNode(s) ==
    IF s = << >> THEN 0
    ELSE LET rest == MaxNode(Tail(s))
             a == Head(s)[1]
             b == Head(s)[2]
             m == IF a > b THEN a ELSE b
         IN IF m > rest THEN m ELSE rest

\* e can be inserted after the edges s: it is new, and it names a node not
\* mentioned before only by the next unused number
CanInsert(s, e) ==
    LET k == MaxNode(s)
    IN /\ \A i \in 1..Len(s) : s[i] # e
       /\ e[1] <= k + 1
       /\ e[2] <= (IF e[1] > k THEN e[1] ELSE k) + 1

\* the edge sets of at most n distinct edges, in every insertion order
RECURSIVE EdgeSeqs(_)
EdgeSeqs(n) ==
    IF n = 0 THEN {<< >>}
    ELSE LET shorter == EdgeSeqs(n - 1)
         IN shorter \cup
            {Append(p[1], p[2]) :
                p \in {q \in shorter \X AllEdges :
                          Len(q[1]) = n - 1 /\ CanInsert(q[1], q[2])}}

Inputs == EdgeSeqs(MaxEdges)

\* no start node, a node of the graph, or a node the edges do not mention
StartNodes(es) == {NULL} \cup 1..(MaxNode(es) + 1)

Init ==
    /\ edges \in Inputs
    /\ start_node = NULL
    /\ pc = "input"
    /\ node_ins = << >>
    /\ node_outs = << >>
    /\ cyclic_edges_forced = << >>
    /\ all_nodes = << >>
    /\ list_of_cyclic_edge_sets = << >>
    /\ tried = 0
    /\ possible_results = << >>
    /\ caught = 0
    /\ best_result = << >>
    /\ intact = TRUE
    /\ at_node_ins = << >>
    /\ all_nodes_tracker = << >>
    /\ graph_topology = << >>
    /\ depth = 0
    /\ current_node_ins = << >>
    /\ current_node_outs = << >>
    /\ generator = << >>
    /\ yielded = 0
    /\ min_cyclic_edges_count = Infinity
    /\ new_cyclic_edges_list = << >>
    /\ cyclic_edges_list = << >>

\* cyclic_toposort(edges, sn) up to the call of the search
CT_Start ==
    /\ pc = "input"
    /\ \E sn \in StartNodes(edges) :
        \E b \in {CT_Build(edges, sn)} :
           /\ start_node' = sn
           /\ node_ins' = b.node_ins
           /\ node_outs' = b.node_outs
           /\ cyclic_edges_forced' = b.cyclic_edges_forced
           /\ all_nodes' = b.all_nodes
    /\ pc' = "search"
    /\ UNCHANGED <<edges, list_of_cyclic_edge_sets, tried, possible_results, caught,
                   best_result, intact, atVars, srVars>>

\* const list_of_cyclic_edge_sets = _cyclic_toposort_recursive(node_ins, node_outs)
CT_CallSearch ==
    /\ pc = "search"
    /\ \E r \in {CT_Search(node_ins, node_outs)} :
          /\ list_of_cyclic_edge_sets' = r.list
          /\ node_ins' = r.node_ins
          /\ node_outs' = r.node_outs
          /\ intact' = r.intact
    /\ pc' = "layer"
    /\ UNCHANGED <<edges, start_node, cyclic_edges_forced, all_nodes, tried,
                   possible_results, caught, best_result, atVars, srVars>>

\* CT_Layer that leaves cyclic_edges_forced out of combined_cyclic_edges
CT_Layer_SearchOnly ==
    /\ pc = "layer"
    /\ tried < Len(list_of_cyclic_edge_sets)
    /\ \E combined_cyclic_edges \in {list_of_cyclic_edge_sets[tried + 1]} :
        \E t \in {acyclic_toposort(CT_Remainder(edges, combined_cyclic_edges))} :
            IF t.ok
            THEN /\ possible_results' =
                        Append(possible_results, <<t.topology, combined_cyclic_edges>>)
                 /\ caught' = caught
            ELSE /\ possible_results' = possible_results
                 /\ caught' = caught + 1
    /\ tried' = tried + 1
    /\ UNCHANGED <<edges, start_node, pc, node_ins, node_outs, cyclic_edges_forced,
                   all_nodes, list_of_cyclic_edge_sets, best_result, intact, atVars, srVars>>

\* one iteration of the loop over list_of_cyclic_edge_sets
CT_Layer ==
    /\ pc = "layer"
    /\ tried < Len(list_of_cyclic_edge_sets)
    /\ \E combined_cyclic_edges \in
            {list_of_cyclic_edge_sets[tried + 1] \o cyclic_edges_forced} :
        \E t \in {acyclic_toposort(CT_Remainder(edges, combined_cyclic_edges))} :
            IF t.ok
            THEN /\ possible_results' =
                        Append(possible_results, <<t.topology, combined_cyclic_edges>>)
                 /\ caught' = caught
            ELSE /\ possible_results' = possible_results
                 /\ caught' = caught + 1
    /\ tried' = tried + 1
    /\ UNCHANGED <<edges, start_node, pc, node_ins, node_outs, cyclic_edges_forced,
                   all_nodes, list_of_cyclic_edge_sets, best_result, intact, atVars, srVars>>

\* after the loop: throw, or select the best result and return it
CT_Select ==
    /\ pc = "layer"
    /\ tried = Len(list_of_cyclic_edge_sets)
    /\ IF Len(possible_results) = 0
       THEN /\ pc' = "threw"
            /\ best_result' = best_result
       ELSE /\ pc' = "returned"
            /\ best_result' = CT_Best(possible_results, 1, node_ins,
                                      possible_results[1], MinusInfinity)
    /\ UNCHANGED <<edges, start_node, node_ins, node_outs, cyclic_edges_forced,
                   all_nodes, list_of_cyclic_edge_sets, tried, possible_results,
                   caught, intact, atVars, srVars>>

\* acyclic_toposort(edges) up to its while loop
AT_Start ==
    /\ pc = "input"
    /\ \E b \in {AT_Build(edges)} :
          /\ at_node_ins' = b.node_ins
          /\ all_nodes_tracker' = b.all_nodes_tracker
    /\ pc' = "at_loop"
    /\ UNCHANGED <<edges, start_node, ctVars, graph_topology, srVars>>

\* one iteration that finds dependencyless nodes and pushes them as a level
AT_Level ==
    /\ pc = "at_loop"
    /\ \E dependencyless \in
            {AT_Dependencyless(at_node_ins, all_nodes_tracker, graph_topology)} :
          /\ Len(dependencyless) > 0
          /\ graph_topology' = Append(graph_topology, dependencyless)
          /\ at_node_ins' = AT_RemoveDeps(at_node_ins, dependencyless)
    /\ UNCHANGED <<edges, start_node, pc, ctVars, all_nodes_tracker, srVars>>

\* no dependencyless node and none unplaced: break, return graph_topology
AT_Return ==
    /\ pc = "at_loop"
    /\ Len(AT_Dependencyless(at_node_ins, all_nodes_tracker, graph_topology)) = 0
    /\ ~AT_RemainingNodes(all_nodes_tracker, graph_topology)
    /\ pc' = "at_returned"
    /\ UNCHANGED <<edges, start_node, ctVars, atVars, srVars>>

\* no dependencyless node but unplaced ones: throw Error("Cyclic graph detected ...")
AT_Throw ==
    /\ pc = "at_loop"
    /\ Len(AT_Dependencyless(at_node_ins, all_nodes_tracker, graph_topology)) = 0
    /\ AT_RemainingNodes(all_nodes_tracker, graph_topology)
    /\ pc' = "at_threw"
    /\ UNCHANGED <<edges, start_node, ctVars, atVars, srVars>>

\* ----------------------------- one call of the search, followed step by step
\* Here node_ins and node_outs are the parameters of the call that is
\* followed: first the one cyclic_toposort makes, then, by SR_Recurse, any
\* call that call makes, at any depth. pc = "search" is cyclic_toposort at
\* its call of the search, pc = "call" any other call of the search about to
\* be entered.
\* two maps as objects of a fresh heap
Held(ins, outs) ==
    LET si == Store(<< >>, ins)
        so == Store(si.h, outs)
    IN [h |-> so.h, ins |-> si.a, outs |-> so.a]

\* function entry: the two deep copies and cyclic_edges_list = [new Set()]
SR_Call ==
    /\ pc \in {"search", "call"}
    /\ \E m \in {Held(node_ins, node_outs)} :
        \E ci \in {deepCopyMapSet(m.h, m.ins)} :
        \E co \in {deepCopyMapSet(ci.h, m.outs)} :
           /\ current_node_ins' = Deref(co.h, ci.a)
           /\ current_node_outs' = Deref(co.h, co.a)
    /\ cyclic_edges_list' = << << >> >>
    /\ pc' = "peel"
    /\ UNCHANGED <<edges, start_node, ctVars, atVars, depth, generator, yielded,
                   min_cyclic_edges_count, new_cyclic_edges_list>>

\* an iteration of the while loop that removes nodes: it continues the loop,
\* or returns cyclic_edges_list when both maps are empty
SR_PeelRound ==
    /\ pc = "peel"
    /\ \E m \in {Held(current_node_ins, current_node_outs)} :
        \E round \in {PeelRound(m.h, m.ins, m.outs)} :
           /\ round.ends # "break"
           /\ current_node_ins' = Deref(round.h, m.ins)
           /\ current_node_outs' = Deref(round.h, m.outs)
           /\ pc' = IF round.ends = "return" THEN "sr_returned" ELSE "peel"
    /\ UNCHANGED <<edges, start_node, ctVars, atVars, depth, generator, yielded,
                   min_cyclic_edges_count, new_cyclic_edges_list, cyclic_edges_list>>

\* the iteration of the while loop that finds nothing to remove: return
\* cyclic_edges_list when no edge is left, else set up the for loop
SR_Generate ==
    /\ pc = "peel"
    /\ \E m \in {Held(current_node_ins, current_node_outs)} :
           /\ PeelRound(m.h, m.ins, m.outs).ends = "break"
           /\ \E current_edges \in {recreateEdgesFromIns(m.h, m.ins)} :
                 IF Len(current_edges) = 0
                 THEN /\ pc' = "sr_returned"
                      /\ UNCHANGED <<generator, min_cyclic_edges_count,
                                     new_cyclic_edges_list>>
                 ELSE /\ pc' = "loop"
                      /\ min_cyclic_edges_count' = Infinity
                      /\ new_cyclic_edges_list' = << >>
                      /\ generator' = generate_reduced_ins_outs(current_edges, m.h,
                                                                m.ins, m.outs)
    /\ yielded' = 0
    /\ UNCHANGED <<edges, start_node, ctVars, atVars, depth, current_node_ins,
                   current_node_outs, cyclic_edges_list>>

\* one iteration of the for loop over the generator
SR_Iteration ==
    /\ pc = "loop"
    /\ yielded < Len(generator)
    /\ \E m \in {Held(current_node_ins, current_node_outs)} :
        \E it \in {Iteration(m.h, m.ins, m.outs, generator[yielded + 1],
                             min_cyclic_edges_count, new_cyclic_edges_list)} :
           /\ min_cyclic_edges_count' = it.min
           /\ new_cyclic_edges_list' = it.list
    /\ yielded' = yielded + 1
    /\ UNCHANGED <<edges, start_node, pc, ctVars, atVars, depth, current_node_ins,
                   current_node_outs, generator, cyclic_edges_list>>

\* SR_Recurse that passes on the generator's maps, no edge deleted
SR_Recurse_SameMaps ==
    /\ pc = "loop"
    /\ yielded < Len(generator)
    /\ Below(Len(generator[yielded + 1]), min_cyclic_edges_count)
    /\ node_ins' = current_node_ins
    /\ node_outs' = current_node_outs
    /\ depth' = depth + 1
    /\ pc' = "call"
    /\ current_node_ins' = << >>
    /\ current_node_outs' = << >>
    /\ generator' = << >>
    /\ yielded' = 0
    /\ min_cyclic_edges_count' = Infinity
    /\ new_cyclic_edges_list' = << >>
    /\ cyclic_edges_list' = << >>
    /\ UNCHANGED <<edges, start_node, cyclic_edges_forced, all_nodes,
                   list_of_cyclic_edge_sets, tried, possible_results, caught,
                   best_result, intact, atVars>>

\* the recursive call of an iteration that is not pruned, entered: from here
\* on the callee is the call that is followed
SR_Recurse ==
    /\ pc = "loop"
    /\ yielded < Len(generator)
    /\ Below(Len(generator[yielded + 1]), min_cyclic_edges_count)
    /\ \E m \in {Held(current_node_ins, current_node_outs)} :
        \E y \in {YieldReduced(m.h, m.ins, m.outs, generator[yielded + 1])} :
           /\ node_ins' = Deref(y.h, y.reduced_ins)
           /\ node_outs' = Deref(y.h, y.reduced_outs)
    /\ depth' = depth + 1
    /\ pc' = "call"
    /\ current_node_ins' = << >>
    /\ current_node_outs' = << >>
    /\ generator' = << >>
    /\ yielded' = 0
    /\ min_cyclic_edges_count' = Infinity
    /\ new_cyclic_edges_list' = << >>
    /\ cyclic_edges_list' = << >>
    /\ UNCHANGED <<edges, start_node, cyclic_edges_forced, all_nodes,
                   list_of_cyclic_edge_sets, tried, possible_results, caught,
                   best_result, intact, atVars>>

\* the generator is exhausted: return new_cyclic_edges_list
SR_Return ==
    /\ pc = "loop"
    /\ yielded = Len(generator)
    /\ cyclic_edges_list' = new_cyclic_edges_list
    /\ pc' = "sr_returned"
    /\ UNCHANGED <<edges, start_node, ctVars, atVars, depth, current_node_ins,
                   current_node_outs, generator, yielded, min_cyclic_edges_count,
                   new_cyclic_edges_list>>

Next ==
    \/ CT_Start
    \/ CT_CallSearch
    \/ CT_Layer
    \/ CT_Select
    \/ AT_Start
    \/ AT_Level
    \/ AT_Return
    \/ AT_Throw

Spec == Init /\ [][Next]_vars

\* the loop over list_of_cyclic_edge_sets from index k on: possible_results,
\* a set whose sort throws left out
RECURSIVE CT_Possible(_, _, _, _)
CT_Possible(es, forced, list, k) ==
    IF k > Len(list) THEN << >>
    ELSE The({(IF t.ok THEN << <<t.topology, list[k] \o forced>> >> ELSE << >>)
                 \o CT_Possible(es, forced, list, k + 1) :
                t \in {acyclic_toposort(CT_Remainder(es, list[k] \o forced))}})

\* cyclic_toposort(es, sn) as a whole: ok = FALSE stands for the thrown
\* error, result is the returned pair of topology and cyclic edges
cyclic_toposort(es, sn) ==
    The({The({The({IF Len(possible) = 0
                   THEN [ok |-> FALSE, result |-> << >>]
                   ELSE [ok |-> TRUE,
                         result |-> CT_Best(possible, 1, r.node_ins,
                                            possible[1], MinusInfinity)] :
                    possible \in {CT_Possible(es, b.cyclic_edges_forced, r.list, 1)}}) :
              r \in {CT_Search(b.node_ins, b.node_outs)}}) :
         b \in {CT_Build(es, sn)}})

\* cyclic_toposort(edges), start_node left at its default null
CT_StartDefault ==
    /\ pc = "input"
    /\ \E b \in {CT_Build(edges, NULL)} :
          /\ node_ins' = b.node_ins
          /\ node_outs' = b.node_outs
          /\ cyclic_edges_forced' = b.cyclic_edges_forced
          /\ all_nodes' = b.all_nodes
    /\ pc' = "search"
    /\ UNCHANGED <<edges, start_node, list_of_cyclic_edge_sets, tried,
                   possible_results, caught, best_result, intact, atVars, srVars>>

\* the edge sets of at most n distinct edges over the nodes 1..k, in every
\* insertion order, nodes numbered in order of first mention
RECURSIVE EdgeSeqsOver(_, _)
EdgeSeqsOver(n, k) ==
    IF n = 0 THEN {<< >>}
    ELSE LET shorter == EdgeSeqsOver(n - 1, k)
         IN shorter \cup
            {Append(p[1], p[2]) :
                p \in {q \in shorter \X ((1..k) \X (1..k)) :
                          Len(q[1]) = n - 1 /\ CanInsert(q[1], q[2])}}

\* cyclic_toposort without start_node on edge sets over one node more than
\* Nodes (two cycles that share no node take four nodes)
InitWide ==
    /\ edges \in EdgeSeqsOver(MaxEdges, NumNodes + 1)
    /\ start_node = NULL
    /\ pc = "input"
    /\ node_ins = << >>
    /\ node_outs = << >>
    /\ cyclic_edges_forced = << >>
    /\ all_nodes = << >>
    /\ list_of_cyclic_edge_sets = << >>
    /\ tried = 0
    /\ possible_results = << >>
    /\ caught = 0
    /\ best_result = << >>
    /\ intact = TRUE
    /\ at_node_ins = << >>
    /\ all_nodes_tracker = << >>
    /\ graph_topology = << >>
    /\ depth = 0
    /\ current_node_ins = << >>
    /\ current_node_outs = << >>
    /\ generator = << >>
    /\ yielded = 0
    /\ min_cyclic_edges_count = Infinity
    /\ new_cyclic_edges_list = << >>
    /\ cyclic_edges_list = << >>

NextWide ==
    \/ CT_StartDefault
    \/ CT_CallSearch
    \/ CT_Layer
    \/ CT_Select

SpecWide == InitWide /\ [][NextWide]_vars

\* The search as a function of its two maps: a call of
\* _cyclic_toposort_recursive on maps that cyclic_toposort builds, for edge
\* sets of up to MaxEdges + 1 edges (two nodes with two predecessors each in
\* one cycle core take five edges), and the calls below it.
InitSearch ==
    /\ \E es \in EdgeSeqs(MaxEdges + 1) :
        \E sn \in StartNodes(es) :
        \E b \in {CT_Build(es, sn)} :
           /\ node_ins = b.node_ins
           /\ node_outs = b.node_outs
    /\ pc = "call"
    /\ edges = << >>
    /\ start_node = NULL
    /\ cyclic_edges_forced = << >>
    /\ all_nodes = << >>
    /\ list_of_cyclic_edge_sets = << >>
    /\ tried = 0
    /\ possible_results = << >>
    /\ caught = 0
    /\ best_result = << >>
    /\ intact = TRUE
    /\ at_node_ins = << >>
    /\ all_nodes_tracker = << >>
    /\ graph_topology = << >>
    /\ depth = 0
    /\ current_node_ins = << >>
    /\ current_node_outs = << >>
    /\ generator = << >>
    /\ yielded = 0
    /\ min_cyclic_edges_count = Infinity
    /\ new_cyclic_edges_list = << >>
    /\ cyclic_edges_list = << >>

NextSearch ==
    \/ SR_Call
    \/ SR_PeelRound
    \/ SR_Generate
    \/ SR_Iteration
    \/ SR_Recurse
    \/ SR_Return

SpecSearch == InitSearch /\ [][NextSearch]_vars

\* Everything together, with the search followed step by step from the
\* orchestrator's call as well.
InitAll == Init \/ InitSearch

NextAll == Next \/ NextSearch

\* a call has returned or thrown
Terminated == pc \in {"returned", "threw", "at_returned", "at_threw", "sr_returned"}

\* The code is sequential and synchronous: a call that has not returned or
\* thrown goes on executing. This is weak fairness of NextAll, WF_vars(NextAll),
\* with "not Terminated" written out for ENABLED <<NextAll>>_vars.
Running == []<>Terminated \/ []<><<NextAll>>_vars

FairSpec == InitAll /\ [][NextAll]_vars /\ Running

\* ------------------------------------------------- graph notions for claims
\* the non-self-loop edges of an edge sequence, as a set
NonLoops(es) == {e \in Range(es) : e[1] # e[2]}

Mentioned(es) == UNION {{e[1], e[2]} : e \in Range(es)}

RECURSIVE ReachFrom(_, _)
ReachFrom(E, S) ==
    LET next == S \cup {e[2] : e \in {x \in E : x[1] \in S}}
    IN IF next = S THEN S ELSE ReachFrom(E, next)

\* E (without self-loops) has a directed cycle
HasCycle(E) == \E e \in E : e[1] \in ReachFrom(E, {e[2]})

\* the least number of edges of E whose removal leaves no directed cycle
MinFeedback(E) ==
    CHOOSE n \in 0..Cardinality(E) :
        /\ \E F \in SUBSET E : Cardinality(F) = n /\ ~HasCycle(E \ F)
        /\ \A F \in SUBSET E : Cardinality(F) < n => HasCycle(E \ F)

\* the indices of the levels of a topology that contain node n
LevelsOf(topology, n) == {i \in 1..Len(topology) : n \in Range(topology[i])}

\* n is in exactly one level, and only once in it
InOneLevel(topology, n) ==
    /\ Cardinality(LevelsOf(topology, n)) = 1
    /\ \A i \in LevelsOf(topology, n) :
          Cardinality({j \in 1..Len(topology[i]) : topology[i][j] = n}) = 1

\* every edge of E goes from a level to a strictly later one
Layered(topology, E) ==
    \A e \in E :
        /\ LevelsOf(topology, e[1]) # {}
        /\ LevelsOf(topology, e[2]) # {}
        /\ \A i \in LevelsOf(topology, e[1]), j \in LevelsOf(topology, e[2]) : i < j

Returned == pc = "returned"
ResultTopology == best_result[1]
ResultCyclic == Range(best_result[2])

\* ------------------------------------------------------------------ claims
\* C1: the cyclic edge set cyclic_toposort returns is a subset of the input
\* edges, the input without it has no directed cycle (self-loops ignored),
\* and the returned topology puts the source of every retained non-self-loop
\* edge in a strictly earlier level than its target.
C1_RemainderLayered ==
    Returned =>
        /\ ResultCyclic \subseteq Range(edges)
        /\ ~HasCycle(NonLoops(edges) \ ResultCyclic)
        /\ Layered(ResultTopology, NonLoops(edges) \ ResultCyclic)

C1_Witness ==
    /\ Returned
    /\ start_node # NULL
    /\ HasCycle(NonLoops(edges))
    /\ Cardinality(ResultCyclic) = 2
    /\ NonLoops(edges) \ ResultCyclic # {}

\* C2: without start_node, the returned cyclic edge set has the least
\* cardinality of any set of input edges whose removal makes the graph
\* acyclic.
C2_MinimumCardinality ==
    (Returned /\ start_node = NULL) =>
        Cardinality(ResultCyclic) = MinFeedback(NonLoops(edges))

\* C3: for input whose non-self-loop edges are acyclic, acyclic_toposort
\* returns, every node any edge mentions (self-loops included) is in exactly
\* one level, and every non-self-loop edge goes to a strictly later level.
C3_AcyclicLayering ==
    (pc \in {"at_returned", "at_threw"} /\ ~HasCycle(NonLoops(edges))) =>
        /\ pc = "at_returned"
        /\ \A n \in Mentioned(edges) : InOneLevel(graph_topology, n)
        /\ Layered(graph_topology, NonLoops(edges))

C3_Witness ==
    /\ pc = "at_returned"
    /\ Len(graph_topology) = 3
    /\ \E e \in Range(edges) : e[1] = e[2]
    /\ Cardinality(NonLoops(edges)) = 3

\* C4: acyclic_toposort throws exactly when the non-self-loop edges of the
\* input contain a directed cycle.
C4_ThrowsIffCycle ==
    pc \in {"at_returned", "at_threw"} =>
        (pc = "at_threw" <=> HasCycle(NonLoops(edges)))

\* a throw after some nodes were placed, on input that also has a self-loop
C4_Witness ==
    /\ pc = "at_threw"
    /\ Len(graph_topology) > 0
    /\ \E e \in Range(edges) : e[1] = e[2]

\* C5: without start_node, the returned cyclic edge set is empty exactly
\* when the non-self-loop edges of the input are acyclic.
C5_EmptyIffAcyclic ==
    (Returned /\ start_node = NULL) =>
        (ResultCyclic = {} <=> ~HasCycle(NonLoops(edges)))

C5_Witness ==
    /\ Returned
    /\ start_node = NULL
    /\ ResultCyclic = {}
    /\ Cardinality(NonLoops(edges)) = 3

\* the non-self-loop input edges into the start node
IntoStart == {e \in NonLoops(edges) : e[2] = start_node}

\* C6: with a start_node, every non-self-loop input edge into start_node is
\* in the returned cyclic edge set, and when the input without those edges
\* is acyclic the returned set consists of exactly those edges.
C6_ForcedEdges ==
    (Returned /\ start_node # NULL) =>
        /\ IntoStart \subseteq ResultCyclic
        /\ ~HasCycle(NonLoops(edges) \ IntoStart) => ResultCyclic = IntoStart

C6_Witness ==
    /\ Returned
    /\ start_node # NULL
    /\ Cardinality(IntoStart) = 2
    /\ ~HasCycle(NonLoops(edges) \ IntoStart)
    /\ HasCycle(NonLoops(edges))

\* the nodes that carry a self-loop
LoopNodes == {e[1] : e \in {x \in Range(edges) : x[1] = x[2]}}

\* C7: no self-loop edge is in the returned cyclic edge set, and every node
\* that carries a self-loop is in a level of the returned topology, also
\* when start_node itself carries a self-loop.
C7_SelfLoops ==
    Returned =>
        /\ \A e \in ResultCyclic : e[1] # e[2]
        /\ \A n \in LoopNodes : LevelsOf(ResultTopology, n) # {}

C7_Witness ==
    /\ Returned
    /\ start_node \in LoopNodes
    /\ IntoStart # {}
    /\ HasCycle(NonLoops(edges) \ IntoStart)

\* C8: every node that any input edge mentions is in exactly one level of
\* the topology cyclic_toposort returns.
C8_EveryNodeLayered ==
    Returned => \A n \in Mentioned(edges) : InOneLevel(ResultTopology, n)

\* C9: cyclic_toposort never throws: the search returns a non-empty list,
\* no candidate is dropped in the catch block, and the empty edge set gives
\* an empty topology and an empty cyclic set.
C9_NeverFails ==
    /\ pc # "threw"
    /\ caught = 0
    /\ (pc = "layer" => Len(list_of_cyclic_edge_sets) > 0)
    /\ (Returned /\ edges = << >>) => best_result = << << >>, << >> >>

\* two candidates came back from the search and both were layered
C9_Witness ==
    /\ Returned
    /\ Len(list_of_cyclic_edge_sets) = 2
    /\ Len(possible_results) = 2
    /\ caught = 0

\* C10: no operation modifies what it is given: the caller's edge set is
\* never changed, and the call of the search leaves the orchestrator's
\* node_ins and node_outs as they were built, as does every yield of the
\* generator and every recursive call below it with the maps passed to it.
C10_InputsUntouched ==
    [][/\ edges' = edges
       /\ pc = "search" => /\ node_ins' = node_ins
                           /\ node_outs' = node_outs
                           /\ intact']_vars

\* a search that peeled its copies, ran the generator and recursed
C10_Witness ==
    /\ pc = "layer"
    /\ Len(list_of_cyclic_edge_sets[1]) = 2
    /\ Len(list_of_cyclic_edge_sets) = 2
    /\ \E i \in 1..Len(node_ins) : Len(node_ins[i][2]) = 0

\* ----------------------------------------------- claims about the search
MinOf(S) == CHOOSE x \in S : \A y \in S : x <= y

\* the call that is followed has returned from its for loop
LoopReturned == pc = "sr_returned" /\ Len(generator) > 0

\* the size of candidate i plus the cardinality the recursive call on its
\* reduced maps returns
CandidateTotal(i) ==
    LET m == Held(current_node_ins, current_node_outs)
        y == YieldReduced(m.h, m.ins, m.outs, generator[i])
    IN Len(generator[i])
       + Len(_cyclic_toposort_recursive(y.h, y.reduced_ins, y.reduced_outs).list[1])

\* C11: the cardinality a call of the search returns from its for loop is
\* the least, over all candidates the generator yields for the peeled maps,
\* skipped or not, of the candidate's size plus the cardinality the
\* recursive call on the candidate's reduced maps returns.
C11_PruningExact ==
    LoopReturned =>
        /\ Len(cyclic_edges_list) > 0
        /\ min_cyclic_edges_count = MinOf({CandidateTotal(i) : i \in 1..Len(generator)})
        /\ \A i \in 1..Len(cyclic_edges_list) :
              Len(cyclic_edges_list[i]) = min_cyclic_edges_count

\* a returned call whose generator yielded a larger candidate before a
\* smaller one and that skipped a candidate: the first candidate is never
\* skipped and sets the best count, and a later one is at least that large
C11_Witness ==
    /\ LoopReturned
    /\ \E i, j \in 1..Len(generator) : i < j /\ Len(generator[i]) > Len(generator[j])
    /\ \E i \in 2..Len(generator) : Len(generator[i]) >= CandidateTotal(1)
    /\ depth = 0

\* the for loop of the call that is followed has its generator
GeneratorRan == pc = "loop" \/ LoopReturned

\* the edges of the peeled maps, from which the generator was made
CurrentEdges ==
    UNION {{<<start, current_node_ins[i][1]>> : start \in Range(current_node_ins[i][2])} :
              i \in 1..Len(current_node_ins)}

\* the entries of the incoming map with two or more predecessors
ManyPreds == {i \in 1..Len(current_node_ins) : Len(current_node_ins[i][2]) >= 2}

\* the entry of the incoming map whose node all edges of candidate k enter
TargetOf(k) ==
    CHOOSE i \in 1..Len(current_node_ins) :
        \A x \in 1..Len(generator[k]) : generator[k][x][2] = current_node_ins[i][1]

\* candidate k holds no edge twice
NoRepeat(k) == Cardinality(Range(generator[k])) = Len(generator[k])

\* the candidates are exactly the non-empty subsets of the predecessors of
\* each entry of ManyPreds, as edges into it, each once, entry after entry in
\* map order, sizes ascending within an entry
PrimarySequence ==
    /\ \A k \in 1..Len(generator) :
          /\ Len(generator[k]) > 0
          /\ NoRepeat(k)
          /\ \E i \in ManyPreds :
                \A x \in 1..Len(generator[k]) :
                    /\ generator[k][x][2] = current_node_ins[i][1]
                    /\ generator[k][x][1] \in Range(current_node_ins[i][2])
    /\ \A i \in ManyPreds :
          \A S \in (SUBSET Range(current_node_ins[i][2])) \ {{}} :
              Cardinality({k \in 1..Len(generator) :
                              Range(generator[k]) =
                                  {<<start, current_node_ins[i][1]>> : start \in S}}) = 1
    /\ \A k, l \in 1..Len(generator) :
          k < l => \/ TargetOf(k) < TargetOf(l)
                   \/ /\ TargetOf(k) = TargetOf(l)
                      /\ Len(generator[k]) <= Len(generator[l])

\* the candidates are exactly the non-empty subsets of E, each once, sizes
\* non-decreasing
FallbackSequence(E) ==
    /\ Len(generator) = 2 ^ Cardinality(E) - 1
    /\ \A k \in 1..Len(generator) :
          Len(generator[k]) > 0 /\ NoRepeat(k) /\ Range(generator[k]) \subseteq E
    /\ \A S \in (SUBSET E) \ {{}} :
          Cardinality({k \in 1..Len(generator) : Range(generator[k]) = S}) = 1
    /\ \A k, l \in 1..Len(generator) :
          k < l => Len(generator[k]) <= Len(generator[l])

\* C12: generate_reduced_ins_outs yields, when an entry of the incoming map
\* has two or more predecessors, every non-empty subset of the predecessors
\* of each such entry exactly once, in map order and by ascending size, as
\* edges (predecessor, node), and nothing else; otherwise every non-empty
\* subset of the given edges exactly once by non-decreasing size,
\* 2^|edges| - 1 candidates, none for an empty edge set (with empty maps:
\* three for the edges [1,2], [2,3], in the order the unit test expects).
C12_GeneratorSequence ==
    /\ GeneratorRan =>
          IF ManyPreds # {} THEN PrimarySequence ELSE FallbackSequence(CurrentEdges)
    /\ generate_reduced_ins_outs(<< >>, << << >>, << >> >>, 1, 2) = << >>
    /\ generate_reduced_ins_outs(<< <<1, 2>>, <<2, 3>> >>, << << >>, << >> >>, 1, 2)
          = << << <<1, 2>> >>, << <<2, 3>> >>, << <<1, 2>>, <<2, 3>> >> >>

\* a generator made for maps with two entries of two predecessors each and
\* an entry with one predecessor, which gets no candidate
C12_Witness ==
    /\ pc = "loop"
    /\ Cardinality(ManyPreds) = 2
    /\ \E i \in 1..Len(current_node_ins) : Len(current_node_ins[i][2]) = 1
    /\ Len(generator) = 6

\* the combined sets the for loop builds for candidate i: the candidate's
\* edges followed by each set the recursive call returns
CandidateSets(i) ==
    LET m == Held(current_node_ins, current_node_outs)
        y == YieldReduced(m.h, m.ins, m.outs, generator[i])
        r == _cyclic_toposort_recursive(y.h, y.reduced_ins, y.reduced_outs)
    IN {generator[i] \o r.list[x] : x \in 1..Len(r.list)}

\* C14: the list a call of the search returns, at any depth, is not empty,
\* its sets all have the same cardinality, and no two of them hold the same
\* edges, whatever the order in which they were inserted.
C14_ListOfDistinctSets ==
    pc = "sr_returned" =>
        /\ Len(cyclic_edges_list) > 0
        /\ \A i, j \in 1..Len(cyclic_edges_list) :
              /\ Len(cyclic_edges_list[i]) = Len(cyclic_edges_list[j])
              /\ i # j => Range(cyclic_edges_list[i]) # Range(cyclic_edges_list[j])

\* a call below the orchestrator's returns after two candidates, neither
\* skipped, gave the same edges in different orders
C14_Witness ==
    /\ LoopReturned
    /\ depth >= 1
    /\ \E i, j \in 1..Len(generator) :
          /\ i < j
          /\ Len(generator[i]) < min_cyclic_edges_count
          /\ Len(generator[j]) < min_cyclic_edges_count
          /\ \E a \in CandidateSets(i), b \in CandidateSets(j) :
                /\ Len(a) = min_cyclic_edges_count
                /\ Range(a) = Range(b)
                /\ a # b

\* the keys of a map value
KeysOf(m) == {m[i][1] : i \in 1..Len(m)}

\* the edges a pair of maps holds: by the incoming map, by the outgoing map
InEdges(ins) ==
    UNION {{<<start, ins[i][1]>> : start \in Range(ins[i][2])} : i \in 1..Len(ins)}

OutEdges(outs) ==
    UNION {{<<outs[i][1], end>> : end \in Range(outs[i][2])} : i \in 1..Len(outs)}

\* the edges of E that lie on a directed cycle
OnCycle(E) == {e \in E : e[1] \in ReachFrom(E, {e[2]})}

\* C16: peeling removes no edge that lies on a cycle, so the peeled maps
\* have a directed cycle exactly when the maps passed to the call have one;
\* and when the peel loop has stopped and the generator is run, every node
\* still in the maps has a predecessor and a successor among the nodes
\* still in the maps.
C16_PeeledCore ==
    /\ pc \in {"peel", "loop", "sr_returned"} =>
          /\ OnCycle(InEdges(node_ins)) \subseteq InEdges(current_node_ins)
          /\ HasCycle(InEdges(current_node_ins)) <=> HasCycle(InEdges(node_ins))
    /\ GeneratorRan =>
          /\ \A i \in 1..Len(current_node_ins) :
                /\ Len(current_node_ins[i][2]) >= 1
                /\ Range(current_node_ins[i][2]) \subseteq KeysOf(current_node_ins)
                /\ \E j \in 1..Len(current_node_outs) :
                      /\ current_node_outs[j][1] = current_node_ins[i][1]
                      /\ Len(current_node_outs[j][2]) >= 1
                      /\ Range(current_node_outs[j][2]) \subseteq KeysOf(current_node_ins)
          /\ HasCycle(InEdges(current_node_ins))

\* a call below the orchestrator's whose peel loop removed a node that
\* had a predecessor, with the edge into it, and left a core
C16_Witness ==
    /\ pc = "loop"
    /\ depth >= 1
    /\ \E e \in InEdges(node_ins) : e[2] \notin KeysOf(current_node_ins)

\* the keys of a map value, in map order
KeySeq(m) == [i \in 1..Len(m) |-> m[i][1]]

\* both maps have the same keys, and u is in incoming(v) exactly when v is
\* in outgoing(u)
Mirrored(ins, outs) ==
    /\ KeysOf(ins) = KeysOf(outs)
    /\ InEdges(ins) = OutEdges(outs)

\* the reduced maps of candidate k, as values
ReducedMaps(k) ==
    LET m == Held(current_node_ins, current_node_outs)
        y == YieldReduced(m.h, m.ins, m.outs, generator[k])
    IN [ins |-> Deref(y.h, y.reduced_ins), outs |-> Deref(y.h, y.reduced_outs)]

\* C17: the maps a call of the search is given (those cyclic_toposort
\* builds, and below it the reduced maps of a candidate), its maps after
\* each peel round, and the reduced maps of every candidate its generator
\* yields, skipped or not, have equal key sets and mirror each other; and
\* the reduced maps of a candidate are the generator's maps, keys kept,
\* without exactly the candidate's edges.
C17_MirroredMaps ==
    /\ Mirrored(node_ins, node_outs)
    /\ Mirrored(current_node_ins, current_node_outs)
    /\ GeneratorRan =>
          \A k \in 1..Len(generator) :
              \E red \in {ReducedMaps(k)} :
                 /\ Mirrored(red.ins, red.outs)
                 /\ KeySeq(red.ins) = KeySeq(current_node_ins)
                 /\ KeySeq(red.outs) = KeySeq(current_node_outs)
                 /\ Range(generator[k]) \subseteq InEdges(current_node_ins)
                 /\ InEdges(red.ins) = InEdges(current_node_ins) \ Range(generator[k])

\* a call on the reduced maps of a candidate that peeled them and has a
\* generator with a candidate of two edges
C17_Witness ==
    /\ pc = "loop"
    /\ depth >= 1
    /\ Len(current_node_ins) < Len(node_ins)
    /\ \E k \in 1..Len(generator) : Len(generator[k]) = 2

\* ------------------------------------ claims about cycle cores and scores
\* the cycle core of E: what is left when the edges of nodes without a
\* predecessor or without a successor are removed until none is left
MentionedBy(E) == UNION {{e[1], e[2]} : e \in E}

RECURSIVE CoreOf(_)
CoreOf(E) ==
    LET inner == {n \in MentionedBy(E) : (\E e \in E : e[2] = n) /\ (\E e \in E : e[1] = n)}
        kept == {e \in E : e[1] \in inner /\ e[2] \in inner}
    IN IF kept = E THEN E ELSE CoreOf(kept)

\* no node of E has two or more predecessors
SinglePreds(E) == \A e, f \in E : e[2] = f[2] => e = f

\* the number of cycles of a core E of single-predecessor nodes: each node
\* lies on one simple cycle, the set of nodes reachable from it
CyclesOf(E) == Cardinality({ReachFrom(E, {n}) : n \in MentionedBy(E)})

\* C13: without start_node, when no node of the peeled cycle core of the
\* input has two or more predecessors, cyclic_toposort returns, and the
\* returned cyclic edge set has the least cardinality possible, which is
\* the number of simple cycles of the core.
C13_FallbackComplete ==
    (pc \in {"returned", "threw"} /\ start_node = NULL
        /\ SinglePreds(CoreOf(NonLoops(edges)))) =>
        /\ Returned
        /\ Cardinality(ResultCyclic) = CyclesOf(CoreOf(NonLoops(edges)))
        /\ Cardinality(ResultCyclic) = MinFeedback(NonLoops(edges))

\* two cycles that share no node: one edge of each is returned
C13_Witness ==
    /\ Returned
    /\ start_node = NULL
    /\ SinglePreds(CoreOf(NonLoops(edges)))
    /\ CyclesOf(CoreOf(NonLoops(edges))) = 2
    /\ Cardinality(ResultCyclic) = 2

\* the number of non-self-loop input edges into node n, those into
\* start_node included
FullIndegree(n) == Cardinality({e \in NonLoops(edges) : e[2] = n})

\* the sum, over the edges of a cyclic set, of the full indegree of the
\* edge's target
RECURSIVE FullScore(_)
FullScore(cyclic_edges) ==
    IF cyclic_edges = << >> THEN 0
    ELSE FullIndegree(Head(cyclic_edges)[2]) + FullScore(Tail(cyclic_edges))

\* C15: cyclic_toposort returns, of the candidate results that were
\* layered, the first one of maximum score, the score of a result being
\* the sum over its cyclic edges of the indegree of the edge's target among
\* all non-self-loop input edges, those into start_node included.
C15_BestScoreFirst ==
    Returned =>
        \E i \in 1..Len(possible_results) :
            /\ best_result = possible_results[i]
            /\ \A j \in 1..Len(possible_results) :
                  FullScore(possible_results[j][2]) <= FullScore(possible_results[i][2])
            /\ \A j \in 1..(i - 1) :
                  FullScore(possible_results[j][2]) < FullScore(possible_results[i][2])

\* the result returned is not the first one: a later one scores higher
C15_Witness ==
    /\ Returned
    /\ Len(possible_results) >= 2
    /\ best_result # possible_results[1]
    /\ FullScore(best_result[2]) > FullScore(possible_results[1][2])

MaxOf(S) == CHOOSE x \in S : \A y \in S : y <= x

\* the number of edges of the longest path of non-self-loop input edges
\* that ends at node n (for acyclic input)
RECURSIVE LongestPathTo(_)
LongestPathTo(n) ==
    LET preds == {e[1] : e \in {x \in NonLoops(edges) : x[2] = n}}
    IN IF preds = {} THEN 0
       ELSE 1 + MaxOf({LongestPathTo(start) : start \in preds})

\* C18: for acyclic input acyclic_toposort puts every node in the level
\* whose index (from 0) is the length of the longest path of non-self-loop
\* edges ending at the node: no level is empty, the first level holds
\* exactly the nodes without incoming non-self-loop edge, and there is one
\* level more than the longest path has edges, none for an empty edge set.
C18_LongestPathLevels ==
    (pc = "at_returned" /\ ~HasCycle(NonLoops(edges))) =>
        /\ \A n \in Mentioned(edges) :
              LevelsOf(graph_topology, n) = {LongestPathTo(n) + 1}
        /\ \A i \in 1..Len(graph_topology) : Len(graph_topology[i]) > 0
        /\ edges # << >> =>
              Range(graph_topology[1]) =
                  {n \in Mentioned(edges) : \A e \in NonLoops(edges) : e[2] # n}
        /\ Len(graph_topology) =
              IF edges = << >> THEN 0
              ELSE 1 + MaxOf({LongestPathTo(n) : n \in Mentioned(edges)})

\* a node reached by a path of one edge and by a path of two edges, put in
\* the third level
C18_Witness ==
    /\ pc = "at_returned"
    /\ Len(graph_topology) = 3
    /\ \E e \in NonLoops(edges) :
          /\ e[1] \in Range(graph_topology[1])
          /\ e[2] \in Range(graph_topology[3])

\* -------------------------------------------------------- termination
\* the nodes two maps have as keys
NodesOf(ins, outs) == KeysOf(ins) \cup KeysOf(outs)

\* C19: every loop and the recursion make progress towards a bound: a
\* recursive call gets maps with fewer edges than the peeled maps of its
\* caller, a peel round that does not leave the loop removes a node, the
\* for loop takes the next of finitely many candidates, the layering loop
\* the next candidate set, a level of acyclic_toposort places a node not
\* placed before; and every call reaches a return or a throw.
C19_Terminates ==
    /\ [](pc = "peel" =>
            \A m \in {Held(current_node_ins, current_node_outs)} :
                \A round \in {PeelRound(m.h, m.ins, m.outs)} :
                    round.ends # "break" =>
                        /\ NodesOf(Deref(round.h, m.ins), Deref(round.h, m.outs))
                              \subseteq NodesOf(current_node_ins, current_node_outs)
                        /\ NodesOf(Deref(round.h, m.ins), Deref(round.h, m.outs))
                              # NodesOf(current_node_ins, current_node_outs))
    /\ [][/\ (pc = "loop" /\ pc' = "call") =>
               Cardinality(InEdges(node_ins')) < Cardinality(InEdges(current_node_ins))
          /\ (pc = "peel" /\ pc' = "peel") =>
               Len(current_node_ins') < Len(current_node_ins)
          /\ (pc = "loop" /\ pc' = "loop") =>
               /\ generator' = generator
               /\ yielded' = yielded + 1
               /\ yielded' <= Len(generator)
          /\ (pc = "layer" /\ pc' = "layer") =>
               /\ tried' = tried + 1
               /\ tried' <= Len(list_of_cyclic_edge_sets)
          /\ (pc = "at_loop" /\ pc' = "at_loop") =>
               /\ Cardinality(Placed(graph_topology'))
                     > Cardinality(Placed(graph_topology))
               /\ Placed(graph_topology') \subseteq Range(all_nodes_tracker)]_vars
    /\ <>Terminated

\* a call two calls below the orchestrator's has run its for loop and
\* returned
C19_Witness ==
    /\ LoopReturned
    /\ depth = 2

\* --------------------------------------------------- insertion order
\* the insertion orders of the edge set es
Orderings(es) ==
    {p \in [1..Len(es) -> Range(es)] : \A i, j \in 1..Len(es) : p[i] = p[j] => i = j}

\* the levels of a topology as sets of nodes
LevelSets(topology) == [i \in 1..Len(topology) |-> Range(topology[i])]

\* C20: for every insertion order of the same edges, cyclic_toposort with
\* the same start_node returns a cyclic set of the same size (and throws
\* only if it throws for this order), and acyclic_toposort returns levels
\* with the same contents (and throws only if it throws for this order).
C20_OrderIndependent ==
    /\ pc \in {"returned", "threw"} =>
          \A p \in Orderings(edges) :
              \A other \in {cyclic_toposort(p, start_node)} :
                  /\ other.ok = (pc = "returned")
                  /\ other.ok => Len(other.result[2]) = Len(best_result[2])
                  /\ p = edges => other.result = best_result
    /\ pc \in {"at_returned", "at_threw"} =>
          \A p \in Orderings(edges) :
              \A other \in {acyclic_toposort(p)} :
                  /\ other.ok = (pc = "at_returned")
                  /\ other.ok => LevelSets(other.topology) = LevelSets(graph_topology)

\* cyclic_toposort has returned a set of two edges or more, and for another
\* insertion order of the same edges it returns other edges
C20_Witness ==
    /\ pc = "returned"
    /\ Len(best_result[2]) >= 2
    /\ \E p \in Orderings(edges) :
           Range(cyclic_toposort(p, start_node).result[2]) # Range(best_result[2])

\* ------------------------------------------------------- the start node
\* the edges the search chose: those of the sets of list_of_cyclic_edge_sets
SearchChosen ==
    UNION {Range(list_of_cyclic_edge_sets[i]) : i \in 1..Len(list_of_cyclic_edge_sets)}

\* C21: with a start_node, the edges cyclic_toposort hands to
\* acyclic_toposort for the returned result have no edge into start_node
\* but a self-loop, start_node is in no level of the returned topology but
\* the first, and no edge of a set the search returned goes into start_node.
C21_StartNodeFirst ==
    (Returned /\ start_node # NULL) =>
        /\ \A e \in Range(CT_Remainder(edges, best_result[2])) :
               e[2] = start_node => e[1] = start_node
        /\ LevelsOf(ResultTopology, start_node) \subseteq {1}
        /\ \A e \in SearchChosen : e[2] # start_node

\* start_node has incoming edges, the search chose an edge on top of the
\* forced ones, edges remain, and start_node is in the first level
C21_Witness ==
    /\ Returned
    /\ start_node # NULL
    /\ IntoStart # {}
    /\ SearchChosen # {}
    /\ CT_Remainder(edges, best_result[2]) # << >>
    /\ LevelsOf(ResultTopology, start_node) = {1}

\* ---------------------------------------------------------- irredundancy
\* C22: without start_node, putting any single edge of the returned cyclic
\* edge set back among the remaining edges makes a directed cycle.
C22_Irredundant ==
    (Returned /\ start_node = NULL) =>
        \A e \in ResultCyclic :
            HasCycle((NonLoops(edges) \ ResultCyclic) \cup {e})

====
